---- MODULE Spec2Model ----
(***************************************************************************)
(* Model of hospital_app/app.py: the recursive 30-minute slot simulation   *)
(* that chains the arrival, queue and wait-time predictors over one day.   *)
(*                                                                         *)
(* Names that are not ASCII in the source are transliterated:              *)
(*   column  zenjitsu_shukujitsu_flag  = the previous-day-holiday flag     *)
(*   column  ame_flag / yuki_flag      = the rain / snow flag              *)
(*   weather characters  hare kumori ame yuki kai usu                      *)
(* A weather value is the sequence of its characters, a time label the     *)
(* sequence of its five characters, a raw predictor output an integer      *)
(* number of tenths (-24 is -2.4, 76 is 7.6).                              *)
(***************************************************************************)
EXTENDS Integers, Sequences, FiniteSets, TLC

VARIABLES
  count_cols, multi_cols,      \* the two schemas returned by load_models()
  model_seed,                  \* which behaviour the three loaded models have
  holiday_table,               \* the public-holiday data behind jpholiday
  target_date, total_patients, weather,      \* widget values
  pc,                          \* position of the script
  is_holiday, is_prev_holiday,
  time_slots, k,               \* the slots and the loop position (1-based)
  results, lags, queue_at_start,
  df_count, dcount, reception,
  df_multi, dmulti, queue_pred, wait_pred,
  calls,                       \* the predict calls made so far in the slot
  rejected,                    \* the widget that refused the last entry, if any
  result_df, displayed,
  prev_run                     \* inputs and report of the last displayed run

vars == <<count_cols, multi_cols, model_seed, holiday_table, target_date,
          total_patients, weather, pc, is_holiday, is_prev_holiday, time_slots,
          k, results, lags, queue_at_start, df_count, dcount, reception,
          df_multi, dmulti, queue_pred, wait_pred, calls, rejected,
          result_df, displayed, prev_run>>

(***************************************************************************)
(* Bounds of the model                                                     *)
(***************************************************************************)
\* number of calendar years, starting with the leap year 2024, that dates are drawn from
YearSpan == 2
\* the loaded models behave in one of MaxSeed + 1 ways
MaxSeed == 1

(***************************************************************************)
(* Calendar (datetime.date)                                                *)
(***************************************************************************)
Date(y, m, d) == [year |-> y, month |-> m, day |-> d]

IsLeap(y) == (y % 4 = 0) /\ ((y % 100 # 0) \/ (y % 400 = 0))

DaysInMonth(y, m) ==
  IF m = 2 THEN (IF IsLeap(y) THEN 29 ELSE 28)
  ELSE IF m \in {4, 6, 9, 11} THEN 30 ELSE 31

RECURSIVE DaysBeforeMonth(_, _)
DaysBeforeMonth(y, m) ==
  IF m = 1 THEN 0 ELSE DaysBeforeMonth(y, m - 1) + DaysInMonth(y, m - 1)

\* date.toordinal(): 1 for 0001-01-01
ToOrdinal(dt) ==
  LET y == dt.year - 1
  IN  y * 365 + (y \div 4) - (y \div 100) + (y \div 400)
        + DaysBeforeMonth(dt.year, dt.month) + dt.day

\* date.weekday(): Monday is 0, Sunday is 6
Weekday(dt) == (ToOrdinal(dt) + 6) % 7

\* target_date - timedelta(days=1)
PrevDate(dt) ==
  IF dt.day > 1 THEN Date(dt.year, dt.month, dt.day - 1)
  ELSE IF dt.month > 1
       THEN Date(dt.year, dt.month - 1, DaysInMonth(dt.year, dt.month - 1))
       ELSE Date(dt.year - 1, 12, 31)

Years == 2024 .. (2024 + YearSpan - 1)

AllDates ==
  { Date(y, m, d) : y \in Years, m \in 1..12, d \in 1..31 } \
  { dt \in { Date(y, m, d) : y \in Years, m \in 1..12, d \in 29..31 } :
      dt.day > DaysInMonth(dt.year, dt.month) }

\* candidate contents of the holiday data (jpholiday is external data)
HolidayTables ==
  { {},
    { Date(2024, 2, 12), Date(2024, 5, 3), Date(2024, 12, 30),
      Date(2025, 1, 1), Date(2025, 1, 13), Date(2025, 2, 11), Date(2025, 4, 29) } }

\* jpholiday.is_holiday(d)
JpIsHoliday(table, dt) == dt \in table

\* variant: the year-end window starting on December 30
IsNonWorkingDay_DayAfter29(table, dt) ==
  \/ JpIsHoliday(table, dt)
  \/ Weekday(dt) >= 5
  \/ (dt.month = 12 /\ dt.day > 29)
  \/ (dt.month = 1 /\ dt.day <= 3)

\* lines 82-87 and 90-95: the same expression on target_date and on prev_date
IsNonWorkingDay(table, dt) ==
  \/ JpIsHoliday(table, dt)
  \/ Weekday(dt) >= 5
  \/ (dt.month = 12 /\ dt.day >= 29)
  \/ (dt.month = 1 /\ dt.day <= 3)

(***************************************************************************)
(* Sidebar widgets (lines 56-74)                                           *)
(***************************************************************************)
min_value == 0
max_value == 5000
default_value == 1200
step == 50

\* values a user may try to enter in the number box
NumberInputTries ==
  { min_value - step, min_value, default_value, max_value, max_value + step }

\* variant: a number box without max_value
NumberInputAccepts_NoUpperLimit(v) == min_value <= v

\* st.sidebar.number_input(min_value=0, max_value=5000): the value it returns
NumberInputAccepts(v) == min_value <= v /\ v <= max_value

Range(s) == { s[i] : i \in DOMAIN s }

\* the selectbox options, each the sequence of its characters
WeatherOptions ==
  << <<"hare">>, <<"kumori">>, <<"ame">>, <<"yuki">>,
     <<"kai", "hare">>, <<"usu", "kumori">> >>

\* weather texts a caller may wish to submit; the last two are no option
WeatherTries == Range(WeatherOptions) \cup { <<"arashi">>, <<"oo", "ame">> }

SelectboxAccepts(w) == w \in Range(WeatherOptions)

\* "x" in weather, for a one-character x
Contains(ch, w) == \E i \in DOMAIN w : w[i] = ch

\* int(b) of a bool
BoolInt(b) == IF b THEN 1 ELSE 0

\* dates the date box is set to in a simulated session
SimDates ==
  { Date(2024, 12, 30), Date(2025, 1, 6), Date(2025, 1, 8), Date(2025, 2, 11) }

(***************************************************************************)
(* Schemas loaded by load_models() (lines 35-39): ordered column names     *)
(***************************************************************************)
SchemaPairs ==
  { \* every column the builder sets, and one it does not
    [count |-> << "hour", "minute", "is_holiday", "total_outpatient_count",
                  "zenjitsu_shukujitsu_flag", "ame_flag", "yuki_flag",
                  "lag_30min", "lag_60min", "lag_90min", "dayofweek" >>,
     multi |-> << "hour", "minute", "reception_count", "queue_at_start_of_slot",
                  "is_holiday", "total_outpatient_count",
                  "zenjitsu_shukujitsu_flag", "ame_flag", "yuki_flag",
                  "dayofweek" >>],
    \* some builder columns absent, another order
    [count |-> << "lag_90min", "minute", "dayofweek", "hour", "lag_30min",
                  "total_outpatient_count" >>,
     multi |-> << "minute", "reception_count", "dayofweek", "hour", "ame_flag" >>],
    \* hour and minute absent; a lag column in the queue/wait schema
    [count |-> << "is_holiday", "lag_60min", "lag_30min", "yuki_flag" >>,
     multi |-> << "queue_at_start_of_slot", "lag_30min", "reception_count",
                  "zenjitsu_shukujitsu_flag" >>] }

(***************************************************************************)
(* pandas: a one-row DataFrame                                             *)
(***************************************************************************)
\* pd.DataFrame(0, index=[0], columns=cols)
NewFrame(cols) == [columns |-> cols, row |-> [c \in Range(cols) |-> 0]]

\* df[c] = v : overwrites the column, or appends it when df has no such column
SetItem(df, c, v) ==
  IF c \in Range(df.columns)
  THEN [df EXCEPT !.row[c] = v]
  ELSE [columns |-> Append(df.columns, c),
        row |-> [x \in (DOMAIN df.row) \cup {c} |-> IF x = c THEN v ELSE df.row[x]]]

\* variant: the whole frame, appended columns included, instead of df[cols]
SelectCols_AllOfFrame(df, cols) ==
  [names |-> df.columns, data |-> [i \in DOMAIN df.columns |-> df.row[df.columns[i]]]]

\* xgb.DMatrix(df[cols]) : the named columns, in the order of cols
SelectCols(df, cols) ==
  [names |-> cols, data |-> [i \in DOMAIN cols |-> df.row[cols[i]]]]

(***************************************************************************)
(* Time slots (lines 97-101, 112-113, 148)                                 *)
(***************************************************************************)
start_hour == 8
end_hour == 18
freq == 30

Timestamp(m) == [hour |-> m \div 60, minute |-> m % 60]

\* variant: a range that stops before end
DateRange_EndExclusive(start, end, f) ==
  [i \in 1 .. ((end - start) \div f) |-> Timestamp(start + (i - 1) * f)]

\* pd.date_range(start, end, freq): start, start+f, ... up to end inclusive;
\* start and end in minutes after midnight of the target date
DateRange(start, end, f) ==
  [i \in 1 .. ((end - start) \div f + 1) |-> Timestamp(start + (i - 1) * f)]

Digits == << "0", "1", "2", "3", "4", "5", "6", "7", "8", "9" >>

\* ts.strftime("%H:%M")
StrfHM(ts) ==
  << Digits[(ts.hour \div 10) + 1], Digits[(ts.hour % 10) + 1], ":",
     Digits[(ts.minute \div 10) + 1], Digits[(ts.minute % 10) + 1] >>

(***************************************************************************)
(* Feature vector builders                                                 *)
(***************************************************************************)
\* f"lag_{(i+1)*30}min" for the 0-based i of enumerate; j is i + 1
LagCol(j) == "lag_" \o ToString(j * 30) \o "min"

\* lines 120-123: for i, lag in enumerate(lags): if col in df.columns: df[col] = lag
RECURSIVE SetLags(_, _, _)
SetLags(df, lgs, j) ==
  IF j > Len(lgs) THEN df
  ELSE SetLags(IF LagCol(j) \in Range(df.columns)
               THEN SetItem(df, LagCol(j), lgs[j]) ELSE df,
               lgs, j + 1)

\* lines 114-118 and 136-140: the daily context columns
SetContext(df, hol, prevhol, total, wx) ==
  LET d1 == SetItem(df, "is_holiday", BoolInt(hol))
      d2 == SetItem(d1, "total_outpatient_count", total)
      d3 == SetItem(d2, "zenjitsu_shukujitsu_flag", BoolInt(prevhol))
      d4 == SetItem(d3, "ame_flag", BoolInt(Contains("ame", wx)))
  IN  SetItem(d4, "yuki_flag", BoolInt(Contains("yuki", wx)))

\* lines 111-123
BuildCount(cols, ts, hol, prevhol, total, wx, lgs) ==
  LET d1 == SetItem(NewFrame(cols), "hour", ts.hour)
      d2 == SetItem(d1, "minute", ts.minute)
  IN  SetLags(SetContext(d2, hol, prevhol, total, wx), lgs, 1)

\* variant: queue_at_start_of_slot taken from the arrivals of the slot
BuildMulti_QueueFromReception(cols, ts, rec, q, hol, prevhol, total, wx) ==
  LET d1 == SetItem(NewFrame(cols), "hour", ts.hour)
      d2 == SetItem(d1, "minute", ts.minute)
      d3 == SetItem(d2, "reception_count", rec)
      d4 == SetItem(d3, "queue_at_start_of_slot", rec)
  IN  SetContext(d4, hol, prevhol, total, wx)

\* lines 131-140
BuildMulti(cols, ts, rec, q, hol, prevhol, total, wx) ==
  LET d1 == SetItem(NewFrame(cols), "hour", ts.hour)
      d2 == SetItem(d1, "minute", ts.minute)
      d3 == SetItem(d2, "reception_count", rec)
      d4 == SetItem(d3, "queue_at_start_of_slot", q)
  IN  SetContext(d4, hol, prevhol, total, wx)

(***************************************************************************)
(* Predictors and the rounding of their outputs                            *)
(***************************************************************************)
\* raw outputs, in tenths, a model may give: negative, fractional, ties, large
RawOutputs == << -24, 76, 5, 15, 25, -5, 0, 31, 104, -100, 49, 126, 35, 8 >>

ModelOffset(model) ==
  IF model = "count" THEN 0 ELSE IF model = "queue" THEN 3 ELSE 5

RECURSIVE WeightedSum(_, _)
WeightedSum(data, i) ==
  IF i > Len(data) THEN 0 ELSE i * data[i] + WeightedSum(data, i + 1)

\* model.predict(dmatrix)[0]: an opaque, deterministic function of the vector;
\* seed selects one of the behaviours the loaded models may have
Predict(model, seed, data) ==
  RawOutputs[((WeightedSum(data, 1) + ModelOffset(model) + 5 * seed)
                % Len(RawOutputs)) + 1]

\* round(x) of a float: to the nearest integer, a tie to the even one
RoundHalfEven(x) ==
  LET q == x \div 10
      r == x % 10
  IN  IF r < 5 THEN q
      ELSE IF r > 5 THEN q + 1
      ELSE IF q % 2 = 0 THEN q ELSE q + 1

Max(a, b) == IF a >= b THEN a ELSE b

\* variant: int(round(x)), without max(0, .)
RoundClamp_NoClamp(x) == RoundHalfEven(x)

\* int(max(0, round(x)))
RoundClamp(x) == Max(0, RoundHalfEven(x))

\* variant: [reception] + lags[1:]
ShiftLags_DropNewest(lgs, rec) == <<rec>> \o SubSeq(lgs, 2, 3)

\* line 154: [reception] + lags[:2]
ShiftLags(lgs, rec) == <<rec>> \o SubSeq(lgs, 1, 2)

(***************************************************************************)
(* State                                                                   *)
(***************************************************************************)
session == <<count_cols, multi_cols, model_seed, holiday_table>>
widgets == <<target_date, total_patients, weather>>
context == <<is_holiday, is_prev_holiday, time_slots>>
rolling == <<results, lags, queue_at_start>>
arrival == <<df_count, dcount, reception>>
queuewait == <<df_multi, dmulti, queue_pred, wait_pred>>

NoFrame == [columns |-> <<>>, row |-> <<>>]
NoMatrix == [names |-> <<>>, data |-> <<>>]
NoReport == <<>>
NoRun == [inputs |-> <<>>, report |-> <<>>]

Inputs == <<target_date, total_patients, weather>>

\* the script is not inside the run_button branch
Resting == pc \in {"idle", "done", "aborted"}

\* a script run whose run_button is False: no variable of the branch exists
FreshScript ==
  /\ pc' = "idle"
  /\ is_holiday' = FALSE /\ is_prev_holiday' = FALSE /\ time_slots' = <<>>
  /\ k' = 0 /\ results' = <<>> /\ lags' = <<>> /\ queue_at_start' = 0
  /\ df_count' = NoFrame /\ dcount' = NoMatrix /\ reception' = 0
  /\ df_multi' = NoFrame /\ dmulti' = NoMatrix /\ queue_pred' = 0 /\ wait_pred' = 0
  /\ calls' = <<>> /\ result_df' = NoReport /\ displayed' = NoReport

InitSession ==
  /\ \E sp \in SchemaPairs : count_cols = sp.count /\ multi_cols = sp.multi
  /\ model_seed \in 0..MaxSeed
  /\ holiday_table \in HolidayTables
  /\ target_date \in SimDates
  /\ total_patients = default_value
  /\ weather = WeatherOptions[1]
  /\ pc = "idle"
  /\ is_holiday = FALSE /\ is_prev_holiday = FALSE /\ time_slots = <<>>
  /\ k = 0 /\ results = <<>> /\ lags = <<>> /\ queue_at_start = 0
  /\ df_count = NoFrame /\ dcount = NoMatrix /\ reception = 0
  /\ df_multi = NoFrame /\ dmulti = NoMatrix /\ queue_pred = 0 /\ wait_pred = 0
  /\ calls = <<>> /\ rejected = "none"
  /\ result_df = NoReport /\ displayed = NoReport
  /\ prev_run = NoRun

\* a session over the holiday data that registers holidays
Init == InitSession /\ holiday_table # {}

(***************************************************************************)
(* Widget interactions: each reruns the script with run_button False       *)
(***************************************************************************)
DateInput ==
  /\ Resting
  /\ \E d \in SimDates : d # target_date /\ target_date' = d
  /\ rejected' = "none"
  /\ FreshScript
  /\ UNCHANGED <<session, total_patients, weather, prev_run>>

NumberInput ==
  /\ Resting
  /\ \E v \in NumberInputTries :
       /\ v # total_patients
       /\ IF NumberInputAccepts(v)
          THEN /\ total_patients' = v
               /\ rejected' = "none"
               /\ FreshScript
               /\ UNCHANGED <<session, target_date, weather, prev_run>>
          ELSE /\ rejected' = "total_patients"
               /\ UNCHANGED <<session, widgets, pc, context, k, rolling, arrival,
                              queuewait, calls, result_df, displayed, prev_run>>

Selectbox ==
  /\ Resting
  /\ \E w \in WeatherTries :
       /\ w # weather
       /\ IF SelectboxAccepts(w)
          THEN /\ weather' = w
               /\ rejected' = "none"
               /\ FreshScript
               /\ UNCHANGED <<session, target_date, total_patients, prev_run>>
          ELSE /\ rejected' = "weather"
               /\ UNCHANGED <<session, widgets, pc, context, k, rolling, arrival,
                              queuewait, calls, result_df, displayed, prev_run>>

(***************************************************************************)
(* The run_button branch (lines 79-174)                                    *)
(***************************************************************************)
\* variant: lags and queue_at_start kept from the run before
LoopStart_KeepsRolling(old_lags, old_queue) ==
  [results |-> <<>>,
   lags |-> IF old_lags = <<>> THEN <<0, 0, 0>> ELSE old_lags,
   queue_at_start |-> old_queue]

\* lines 103-105; the arguments are the values the names held before the run
LoopStart(old_lags, old_queue) ==
  [results |-> <<>>, lags |-> <<0, 0, 0>>, queue_at_start |-> 0]

\* lines 79-105: the button is pressed, the script reruns up to the loop
RunButton ==
  /\ Resting
  /\ is_holiday' = IsNonWorkingDay(holiday_table, target_date)
  /\ is_prev_holiday' = IsNonWorkingDay(holiday_table, PrevDate(target_date))
  /\ time_slots' = DateRange(start_hour * 60, end_hour * 60, freq)
  /\ LET st == LoopStart(lags, queue_at_start)
     IN  /\ results' = st.results
         /\ lags' = st.lags
         /\ queue_at_start' = st.queue_at_start
  /\ k' = 1
  /\ pc' = IF Len(time_slots') >= 1 THEN "arrival" ELSE "result_df"
  /\ df_count' = NoFrame /\ dcount' = NoMatrix /\ reception' = 0
  /\ df_multi' = NoFrame /\ dmulti' = NoMatrix /\ queue_pred' = 0 /\ wait_pred' = 0
  /\ calls' = <<>> /\ rejected' = "none"
  /\ result_df' = NoReport /\ displayed' = NoReport
  /\ UNCHANGED <<session, widgets, prev_run>>

\* a predict call that returned out, and one that raised
Call(model, data, out) == [model |-> model, data |-> data, raised |-> FALSE, raw |-> out]
Raised(model, data) == [model |-> model, data |-> data, raised |-> TRUE, raw |-> 0]

\* variant: the exception is swallowed and the rows computed so far are shown
Abort_ShowsPartialRows ==
  /\ pc' = "done"
  /\ result_df' = results
  /\ displayed' = results
  /\ UNCHANGED <<k, rolling>>

\* an exception raised by predict leaves the branch: lines 157-174 do not run
Abort ==
  /\ pc' = "aborted"
  /\ UNCHANGED <<k, rolling, result_df, displayed>>

\* lines 111-126
SlotArrival ==
  /\ pc = "arrival"
  /\ df_count' = BuildCount(count_cols, time_slots[k], is_holiday, is_prev_holiday,
                            total_patients, weather, lags)
  /\ dcount' = SelectCols(df_count', count_cols)
  /\ LET out == Predict("count", model_seed, dcount'.data)
     IN  /\ reception' = RoundClamp(out)
         /\ calls' = << Call("count", dcount', out) >>
  /\ pc' = "queue"
  /\ UNCHANGED <<session, widgets, context, k, rolling, queuewait, rejected,
                 result_df, displayed, prev_run>>

\* lines 111-126, count_model.predict raising
SlotArrivalFails ==
  /\ pc = "arrival"
  /\ df_count' = BuildCount(count_cols, time_slots[k], is_holiday, is_prev_holiday,
                            total_patients, weather, lags)
  /\ dcount' = SelectCols(df_count', count_cols)
  /\ calls' = << Raised("count", dcount') >>
  /\ Abort
  /\ UNCHANGED <<session, widgets, context, reception, queuewait, rejected, prev_run>>

\* variant: reception_count taken from lags[0], the arrivals of the slot before
SlotQueue_PreviousArrivals ==
  /\ pc = "queue"
  /\ df_multi' = BuildMulti(multi_cols, time_slots[k], lags[1], queue_at_start,
                            is_holiday, is_prev_holiday, total_patients, weather)
  /\ dmulti' = SelectCols(df_multi', multi_cols)
  /\ LET out == Predict("queue", model_seed, dmulti'.data)
     IN  /\ queue_pred' = RoundClamp(out)
         /\ calls' = Append(calls, Call("queue", dmulti', out))
  /\ pc' = "wait"
  /\ UNCHANGED <<session, widgets, context, k, rolling, arrival, wait_pred, rejected,
                 result_df, displayed, prev_run>>

\* lines 131-144
SlotQueue ==
  /\ pc = "queue"
  /\ df_multi' = BuildMulti(multi_cols, time_slots[k], reception, queue_at_start,
                            is_holiday, is_prev_holiday, total_patients, weather)
  /\ dmulti' = SelectCols(df_multi', multi_cols)
  /\ LET out == Predict("queue", model_seed, dmulti'.data)
     IN  /\ queue_pred' = RoundClamp(out)
         /\ calls' = Append(calls, Call("queue", dmulti', out))
  /\ pc' = "wait"
  /\ UNCHANGED <<session, widgets, context, k, rolling, arrival, wait_pred, rejected,
                 result_df, displayed, prev_run>>

\* lines 131-144, queue_model.predict raising
SlotQueueFails ==
  /\ pc = "queue"
  /\ df_multi' = BuildMulti(multi_cols, time_slots[k], reception, queue_at_start,
                            is_holiday, is_prev_holiday, total_patients, weather)
  /\ dmulti' = SelectCols(df_multi', multi_cols)
  /\ calls' = Append(calls, Raised("queue", dmulti'))
  /\ Abort
  /\ UNCHANGED <<session, widgets, context, arrival, queue_pred, wait_pred, rejected,
                 prev_run>>

\* line 145
SlotWait ==
  /\ pc = "wait"
  /\ LET out == Predict("waittime", model_seed, dmulti.data)
     IN  /\ wait_pred' = RoundClamp(out)
         /\ calls' = Append(calls, Call("waittime", dmulti, out))
  /\ pc' = "append"
  /\ UNCHANGED <<session, widgets, context, k, rolling, arrival, df_multi, dmulti,
                 queue_pred, rejected, result_df, displayed, prev_run>>

\* line 145, waittime_model.predict raising
SlotWaitFails ==
  /\ pc = "wait"
  /\ calls' = Append(calls, Raised("waittime", dmulti))
  /\ Abort
  /\ UNCHANGED <<session, widgets, context, arrival, queuewait, rejected, prev_run>>

\* lines 147-152: the row of the slot (the source's keys are the Japanese headers)
Row(ts, rec, q, w) ==
  [time_label |-> StrfHM(ts), predicted_arrivals |-> rec,
   predicted_queue |-> q, predicted_wait_minutes |-> w]

\* lines 147-155, and the for statement taking the next slot or leaving the loop
SlotAppend ==
  /\ pc = "append"
  /\ results' = Append(results, Row(time_slots[k], reception, queue_pred, wait_pred))
  /\ lags' = ShiftLags(lags, reception)
  /\ queue_at_start' = queue_pred
  /\ IF k < Len(time_slots)
     THEN k' = k + 1 /\ pc' = "arrival"
     ELSE k' = k /\ pc' = "result_df"
  /\ UNCHANGED <<session, widgets, context, arrival, queuewait, calls, rejected,
                 result_df, displayed, prev_run>>

\* line 157
MakeResultDf ==
  /\ pc = "result_df"
  /\ result_df' = results
  /\ pc' = "display"
  /\ UNCHANGED <<session, widgets, context, k, rolling, arrival, queuewait, calls,
                 rejected, displayed, prev_run>>

\* lines 162-174: the table and the chart of result_df
DisplayStep(observed) ==
  /\ pc = "display"
  /\ displayed' = result_df
  /\ pc' = "done"
  /\ prev_run' = IF observed THEN [inputs |-> Inputs, report |-> result_df]
                 ELSE prev_run
  /\ UNCHANGED <<session, widgets, context, k, rolling, arrival, queuewait, calls,
                 rejected, result_df>>

Display == DisplayStep(FALSE)

Next ==
  \/ DateInput \/ NumberInput \/ Selectbox
  \/ RunButton
  \/ SlotArrival \/ SlotArrivalFails
  \/ SlotQueue \/ SlotQueueFails
  \/ SlotWait \/ SlotWaitFails
  \/ SlotAppend
  \/ MakeResultDf
  \/ Display

Spec == Init /\ [][Next]_vars

(***************************************************************************)
(* A session whose displayed reports are recorded, to compare runs         *)
(***************************************************************************)
\* the date box is left alone: the total and the weather vary between runs
InitObserved ==
  /\ Init
  /\ Len(count_cols) = 11
  /\ target_date = Date(2025, 1, 6)

DisplayObserved == DisplayStep(TRUE)

NextObserved ==
  \/ NumberInput \/ Selectbox
  \/ RunButton
  \/ SlotArrival \/ SlotArrivalFails
  \/ SlotQueue \/ SlotQueueFails
  \/ SlotWait \/ SlotWaitFails
  \/ SlotAppend
  \/ MakeResultDf
  \/ DisplayObserved

SpecObserved == InitObserved /\ [][NextObserved]_vars

(***************************************************************************)
(* The calendar classification alone, over every date of the years         *)
(***************************************************************************)
InitCal ==
  /\ InitSession
  /\ model_seed = 0
  /\ Len(count_cols) = 11

\* a date of the modelled years is picked in the date box
PickDate ==
  /\ pc = "idle"
  /\ \E d \in AllDates : d # target_date /\ target_date' = d
  /\ UNCHANGED <<session, total_patients, weather, pc, context, k, rolling, arrival,
                 queuewait, calls, rejected, result_df, displayed, prev_run>>

\* lines 82-95
Classify ==
  /\ pc = "idle"
  /\ is_holiday' = IsNonWorkingDay(holiday_table, target_date)
  /\ is_prev_holiday' = IsNonWorkingDay(holiday_table, PrevDate(target_date))
  /\ pc' = "classified"
  /\ UNCHANGED <<session, widgets, time_slots, k, rolling, arrival, queuewait, calls,
                 rejected, result_df, displayed, prev_run>>

NextCal == PickDate \/ Classify

SpecCal == InitCal /\ [][NextCal]_vars

(***************************************************************************)
(* Properties                                                              *)
(***************************************************************************)
\* the name that holds the rounded output of a model
Reported(model) ==
  IF model = "count" THEN reception
  ELSE IF model = "queue" THEN queue_pred ELSE wait_pred

\* v is raw (in tenths) rounded to a nearest integer, then raised to 0 if below
NearestThenClamped(v, out) ==
  \E r \in ((out \div 10) - 1) .. ((out \div 10) + 1) :
    /\ 10 * r - out <= 5
    /\ out - 10 * r <= 5
    /\ v = IF r < 0 THEN 0 ELSE r

FedForwardCols == {"lag_30min", "lag_60min", "lag_90min",
                   "queue_at_start_of_slot", "reception_count"}

\* C1: each reported value is the raw output rounded to the nearest integer and
\* clamped at 0 (-2.4 gives 0, 7.6 gives 8), so it is an integer >= 0; the rows,
\* the rolling state and the fed-forward vector fields hold only such values.
C1_RoundedAndClamped ==
  /\ \A i \in DOMAIN calls :
       ~calls[i].raised =>
         /\ Reported(calls[i].model) \in Nat
         /\ NearestThenClamped(Reported(calls[i].model), calls[i].raw)
         /\ (calls[i].raw = -24 => Reported(calls[i].model) = 0)
         /\ (calls[i].raw = 76 => Reported(calls[i].model) = 8)
  /\ \A n \in DOMAIN results :
       /\ results[n].predicted_arrivals \in Nat
       /\ results[n].predicted_queue \in Nat
       /\ results[n].predicted_wait_minutes \in Nat
  /\ (pc \in {"arrival", "result_df", "display", "done"} /\ Len(results) >= 1) =>
       /\ results[Len(results)].predicted_arrivals = reception
       /\ results[Len(results)].predicted_queue = queue_pred
       /\ results[Len(results)].predicted_wait_minutes = wait_pred
  /\ \A i \in DOMAIN lags : lags[i] \in Nat
  /\ queue_at_start \in Nat
  /\ \A i \in DOMAIN dcount.names :
       dcount.names[i] \in FedForwardCols => dcount.data[i] \in Nat
  /\ \A i \in DOMAIN dmulti.names :
       dmulti.names[i] \in FedForwardCols => dmulti.data[i] \in Nat

\* a slot after the first in which one model returned -2.4, reported as 0, and
\* another returned 7.6, reported as 8
C1_Witness ==
  /\ pc = "append"
  /\ k >= 2
  /\ \E i \in DOMAIN calls : calls[i].raw = -24 /\ Reported(calls[i].model) = 0
  /\ \E i \in DOMAIN calls : calls[i].raw = 76 /\ Reported(calls[i].model) = 8

\* C2: the queue_at_start_of_slot written for slot N >= 2 is the predicted_queue
\* reported for slot N-1, unaltered, and 0 for slot 1.
C2_QueueCarry ==
  pc \in {"wait", "append"} =>
    /\ Len(results) = k - 1
    /\ df_multi.row["queue_at_start_of_slot"] =
         (IF k = 1 THEN 0 ELSE results[k - 1].predicted_queue)
    /\ \A i \in DOMAIN dmulti.names :
         dmulti.names[i] = "queue_at_start_of_slot" =>
           dmulti.data[i] = (IF k = 1 THEN 0 ELSE results[k - 1].predicted_queue)

C2_Witness ==
  /\ pc = "append"
  /\ k >= 2
  /\ results[k - 1].predicted_queue > 0
  /\ results[k - 1].predicted_queue # reception
  /\ \E i \in DOMAIN dmulti.names :
       dmulti.names[i] = "queue_at_start_of_slot" /\ dmulti.data[i] > 0

DigitVal(c) == CHOOSE d \in 0..9 : Digits[d + 1] = c

\* minutes after midnight that a label "HH:MM" reads as
LabelMinutes(l) ==
  (DigitVal(l[1]) * 10 + DigitVal(l[2])) * 60 + DigitVal(l[4]) * 10 + DigitVal(l[5])

Labels(report) == [n \in DOMAIN report |-> report[n].time_label]

\* C3: a run that does not fail ends after exactly 21 iterations with a report of
\* exactly 21 rows labelled 08:00, 08:30, ..., 18:00: first 08:00, last 18:00,
\* 30 minutes between consecutive labels, strictly increasing, no duplicates.
C3_TwentyOneSlots ==
  pc \in {"display", "done"} =>
    /\ k = 21
    /\ Len(result_df) = 21
    /\ Labels(result_df)[1] = << "0", "8", ":", "0", "0" >>
    /\ Labels(result_df)[2] = << "0", "8", ":", "3", "0" >>
    /\ Labels(result_df)[5] = << "1", "0", ":", "0", "0" >>
    /\ Labels(result_df)[21] = << "1", "8", ":", "0", "0" >>
    /\ \A n \in 1..21 : Len(Labels(result_df)[n]) = 5 /\ Labels(result_df)[n][3] = ":"
    /\ \A n \in 1..20 :
         LabelMinutes(Labels(result_df)[n + 1]) = LabelMinutes(Labels(result_df)[n]) + 30
    /\ \A m, n \in 1..21 :
         m < n => /\ Labels(result_df)[m] # Labels(result_df)[n]
                  /\ LabelMinutes(Labels(result_df)[m]) < LabelMinutes(Labels(result_df)[n])

C3_Witness ==
  /\ pc = "done"
  /\ Len(displayed) = 21
  /\ displayed[21].time_label = << "1", "8", ":", "0", "0" >>

\* value of the named column in a vector, given that the schema has it
Field(m, name) == m.data[CHOOSE i \in DOMAIN m.names : m.names[i] = name]

\* predicted_arrivals reported j slots before slot n, 0 where no such slot is
ArrivalsBefore(n, j) == IF n - j >= 1 THEN results[n - j].predicted_arrivals ELSE 0

\* C4: recent_arrivals holds exactly 3 entries at every step of a run, most recent
\* first, [0,0,0] before the first slot, shifted by one per slot; the lag_30min,
\* lag_60min, lag_90min of slot N's arrival vector are the predicted_arrivals of
\* slots N-1, N-2, N-3, and 0 where that slot does not exist.
C4_RollingWindow ==
  /\ pc # "idle" =>
       /\ Len(lags) = 3
       /\ \A j \in 1..3 : lags[j] = ArrivalsBefore(Len(results) + 1, j)
  /\ (pc = "arrival" /\ k = 1) => lags = <<0, 0, 0>>
  /\ pc \in {"queue", "wait", "append"} =>
       /\ Len(results) = k - 1
       /\ "lag_30min" \in Range(count_cols) =>
            Field(dcount, "lag_30min") = ArrivalsBefore(k, 1)
       /\ "lag_60min" \in Range(count_cols) =>
            Field(dcount, "lag_60min") = ArrivalsBefore(k, 2)
       /\ "lag_90min" \in Range(count_cols) =>
            Field(dcount, "lag_90min") = ArrivalsBefore(k, 3)

C4_Witness ==
  /\ pc = "queue"
  /\ k >= 4
  /\ {"lag_30min", "lag_60min", "lag_90min"} \subseteq Range(count_cols)
  /\ Field(dcount, "lag_30min") > 0
  /\ Field(dcount, "lag_60min") > Field(dcount, "lag_30min")
  /\ Field(dcount, "lag_90min") > Field(dcount, "lag_60min")

\* C5: a predictor failure at any slot aborts the run: no report is produced or
\* displayed, not even the rows already computed, no predictor call is retried, and
\* no later slot is processed.
C5_FailureIsFatal ==
  /\ [](/\ (\E i \in DOMAIN calls : calls[i].raised) => pc = "aborted"
        /\ pc = "aborted" =>
             /\ calls[Len(calls)].raised
             /\ result_df = NoReport
             /\ displayed = NoReport
        /\ \A i, j \in DOMAIN calls : i # j => calls[i].model # calls[j].model
        /\ Len(displayed) \in {0, 21})
  /\ [][pc = "aborted" =>
          \/ pc' = "aborted" /\ UNCHANGED <<k, results, calls, result_df, displayed>>
          \/ pc' = "idle" /\ calls' = <<>> /\ displayed' = NoReport
          \/ pc' = "arrival" /\ k' = 1 /\ results' = <<>> /\ calls' = <<>>
               /\ displayed' = NoReport]_vars

\* the wait model fails at the last slot, after 20 rows were computed
C5_Witness ==
  /\ pc = "aborted"
  /\ k = 21
  /\ Len(results) = 20
  /\ Len(calls) = 3
  /\ calls[3].raised
  /\ displayed = NoReport

RecognizedWeather ==
  { <<"hare">>, <<"kumori">>, <<"ame">>, <<"yuki">>, <<"kai", "hare">>,
    <<"usu", "kumori">> }

\* C6: a total outside 0..5000 or an unrecognized weather is refused at once: the
\* slot loop is never entered with it, no predictor is called and no report made.
C6_InvalidInputRejected ==
  /\ []((pc # "idle" \/ calls # <<>> \/ result_df # NoReport) =>
          /\ total_patients \in 0..5000
          /\ weather \in RecognizedWeather)
  /\ [][(rejected' # "none" /\ rejected' # rejected) =>
          /\ Resting /\ pc' = pc
          /\ UNCHANGED <<widgets, calls, results, result_df, displayed>>]_vars

C6_Witness ==
  /\ rejected = "total_patients"
  /\ pc = "idle"
  /\ calls = <<>>
  /\ total_patients = 5000

\* the value the builder gives a column of the arrival vector; 0 for any other
ExpectedCount(name) ==
  IF name = "hour" THEN time_slots[k].hour
  ELSE IF name = "minute" THEN time_slots[k].minute
  ELSE IF name = "is_holiday" THEN BoolInt(is_holiday)
  ELSE IF name = "total_outpatient_count" THEN total_patients
  ELSE IF name = "zenjitsu_shukujitsu_flag" THEN BoolInt(is_prev_holiday)
  ELSE IF name = "ame_flag" THEN BoolInt(weather \in {<<"ame">>})
  ELSE IF name = "yuki_flag" THEN BoolInt(weather \in {<<"yuki">>})
  ELSE IF name = "lag_30min" THEN ArrivalsBefore(k, 1)
  ELSE IF name = "lag_60min" THEN ArrivalsBefore(k, 2)
  ELSE IF name = "lag_90min" THEN ArrivalsBefore(k, 3)
  ELSE 0

\* the value the builder gives a column of the queue/wait vector; 0 for any other
ExpectedMulti(name) ==
  IF name = "reception_count" THEN reception
  ELSE IF name = "queue_at_start_of_slot" THEN queue_at_start
  ELSE IF name \in {"lag_30min", "lag_60min", "lag_90min"} THEN 0
  ELSE ExpectedCount(name)

HourMinuteAbsent ==
  \/ ~({"hour", "minute"} \subseteq Range(count_cols))
  \/ ~({"hour", "minute"} \subseteq Range(multi_cols))

\* C7 as amended: a builder field absent from the schema, hour and minute included,
\* raises nothing; the vector holds exactly the schema's fields in schema order, the
\* fields the builder does not set being 0, and the run completes with a full report.
C7_LenientSchema ==
  /\ pc \in {"queue", "wait", "append"} =>
       /\ dcount.names = count_cols
       /\ DOMAIN dcount.data = DOMAIN count_cols
       /\ \A i \in DOMAIN count_cols : dcount.data[i] = ExpectedCount(count_cols[i])
  /\ pc \in {"wait", "append"} =>
       /\ dmulti.names = multi_cols
       /\ DOMAIN dmulti.data = DOMAIN multi_cols
       /\ \A i \in DOMAIN multi_cols : dmulti.data[i] = ExpectedMulti(multi_cols[i])
  /\ pc = "aborted" => calls[Len(calls)].raised
  /\ pc = "done" => Len(displayed) = 21

\* a completed run whose schemas have neither hour nor minute
C7_Witness ==
  /\ pc = "done"
  /\ "hour" \notin Range(count_cols)
  /\ "minute" \notin Range(multi_cols)
  /\ "total_outpatient_count" \notin Range(count_cols)
  /\ Len(displayed) = 21

\* C7 as stated: the leniency holds, but a schema without hour or minute is not
\* tolerated: no report comes out of a run under it.
C7_HourMinuteNotTolerated ==
  C7_LenientSchema /\ (HourMinuteAbsent => displayed = NoReport)

\* the calendar day before dt, found by its ordinal
DayBefore(dt) ==
  CHOOSE p \in AllDates \cup {Date(2023, 12, 31)} : ToOrdinal(p) = ToOrdinal(dt) - 1

\* the rule as stated: public holiday, Saturday or Sunday, Dec 29-31, Jan 1-3
NonWorkingRule(dt) ==
  \/ dt \in holiday_table
  \/ Weekday(dt) \in {5, 6}
  \/ (dt.month = 12 /\ dt.day \in 29..31)
  \/ (dt.month = 1 /\ dt.day \in 1..3)

\* C8: the flag of a date is true exactly when it is a registered public holiday, a
\* Saturday or Sunday, December 29-31 or January 1-3; is_holiday is the flag of the
\* target date and the previous-day flag that of the calendar day before it, across
\* month and year boundaries.
C8_NonWorkingDay ==
  /\ Weekday(Date(2024, 1, 1)) = 0
  /\ Weekday(Date(2025, 1, 8)) = 2
  /\ pc = "classified" =>
       /\ is_holiday = NonWorkingRule(target_date)
       /\ is_prev_holiday = NonWorkingRule(DayBefore(target_date))
       /\ (target_date.month = 12 /\ target_date.day = 30) => is_holiday
       /\ (target_date.month = 1 /\ target_date.day = 2) => is_holiday
       /\ (/\ Weekday(target_date) = 2
           /\ target_date \notin holiday_table
           /\ ~(target_date.month = 12 /\ target_date.day >= 29)
           /\ ~(target_date.month = 1 /\ target_date.day <= 3)) => ~is_holiday
       /\ (target_date.month = 1 /\ target_date.day = 4) => is_prev_holiday
       /\ (target_date.month = 1 /\ target_date.day = 1) => is_prev_holiday

\* January 1 on a Wednesday with no holiday registered: both flags set, the
\* previous day being December 31 of the year before
C8_Witness ==
  /\ pc = "classified"
  /\ target_date = Date(2025, 1, 1)
  /\ holiday_table = {}
  /\ is_holiday
  /\ is_prev_holiday

\* C9: a run with the same date, total and weather as the run displayed before it,
\* under the same models, gives the same report, row for row; a run starts from an
\* empty result list and a zero rolling state whatever ran before.
C9_Deterministic ==
  /\ (pc = "display" /\ prev_run.inputs = Inputs) => result_df = prev_run.report
  /\ (pc = "arrival" /\ k = 1) =>
       results = <<>> /\ lags = <<0, 0, 0>> /\ queue_at_start = 0

\* a second run with the inputs of the first, whose first ended with a non-zero
\* rolling state
C9_Witness ==
  /\ pc = "display"
  /\ prev_run.inputs = Inputs
  /\ prev_run.report = result_df
  /\ prev_run.report[21].predicted_arrivals > 0
  /\ prev_run.report[21].predicted_queue > 0

LagCols == {"lag_30min", "lag_60min", "lag_90min"}

\* C10: in a slot the arrival model is called first; reception_count of the slot's
\* queue/wait vector is the arrivals of that same slot; the queue and the wait model
\* are called on that one vector before the rolling state changes; the lag history
\* is never written into the queue/wait vector.
C10_SameSlotArrivals ==
  /\ pc = "queue" => Len(calls) = 1 /\ calls[1].model = "count"
  /\ pc = "wait" =>
       /\ Len(calls) = 2
       /\ calls[1].model = "count" /\ calls[2].model = "queue"
  /\ pc = "append" =>
       /\ Len(calls) = 3
       /\ calls[1].model = "count"
       /\ calls[2].model = "queue"
       /\ calls[3].model = "waittime"
       /\ calls[2].data = calls[3].data
       /\ calls[2].data = dmulti
       /\ Len(results) = k - 1
       /\ \A j \in 1..3 : lags[j] = ArrivalsBefore(k, j)
  /\ pc \in {"wait", "append"} =>
       /\ NearestThenClamped(reception, calls[1].raw)
       /\ df_multi.row["reception_count"] = reception
       /\ \A i \in DOMAIN dmulti.names :
            /\ dmulti.names[i] = "reception_count" => dmulti.data[i] = reception
            /\ dmulti.names[i] \in LagCols => dmulti.data[i] = 0
       /\ \A c \in LagCols : c \in Range(df_multi.columns) => df_multi.row[c] = 0
  /\ (pc \in {"arrival", "result_df"} /\ Len(results) >= 1) =>
       results[Len(results)].predicted_arrivals = df_multi.row["reception_count"]

\* a slot whose arrivals differ from those of the slot before, under a queue/wait
\* schema that has a lag column
C10_Witness ==
  /\ pc = "append"
  /\ k >= 2
  /\ reception > 0
  /\ results[k - 1].predicted_arrivals > 0
  /\ reception # results[k - 1].predicted_arrivals
  /\ "lag_30min" \in Range(multi_cols)
  /\ Field(dmulti, "reception_count") = reception

====
